---- MODULE Spec2Model ----
(***************************************************************************)
(* Model of the acquisition-and-debounce pipeline of src/src/main.rs:      *)
(* bluetooth_scanner (the scan loop), background_data_processor (the       *)
(* debounce/persistence stage), the shared configuration cell, the two     *)
(* mpsc channels and the part of the GUI that drains the outbound channel, *)
(* writes the configuration and drops the receiver on shutdown.            *)
(*                                                                         *)
(* Time is an Instant counted in ticks, TicksPerSec ticks to a second, so  *)
(* that Duration::as_secs (which truncates) is not the identity.           *)
(***************************************************************************)
EXTENDS Integers, Sequences, FiniteSets, TLC

\* ---------------------------------------------------------------- bounds
TicksPerSec == 2
MaxTime == 3
MaxQueue == 2
MaxWrites == 2
MaxStreak == 3
MaxCycleReadings == 2
MaxCsvCalls == 2
MaxElapsedSecs == 62
MaxStartupQueue == 3

\* ------------------------------------------------------ program constants
ContinuousScanSecs == 60
ContinuousPauseSecs == 1
MinPayloadLen == 2
DefaultDuplicateThresholdSecs == 30

\* ------------------------------------------------------------- messages
\* enum AppMessage { NewData(BleDataPoint), StatusUpdate(String), CsvWriteStatus(bool) }
NewData(t, h) == [type |-> "NewData", temp |-> t, hum |-> h, text |-> "", ok |-> FALSE]
StatusUpdate(s) == [type |-> "StatusUpdate", temp |-> 0, hum |-> 0, text |-> s, ok |-> FALSE]
CsvWriteStatus(b) == [type |-> "CsvWriteStatus", temp |-> 0, hum |-> 0, text |-> "", ok |-> b]

StatusAdapterError == "Chyba: BT adapter nenalezen"
StatusScanningContinuous == "Skenuji (kontinualni rezim)..."
StatusScanning == "Skenuji..."
StatusWaiting == "Cekam..."

\* Option<Instant>: <<>> is None, <<t>> is Some(t)
None == <<>>
Some(t) == <<t>>

\* ------------------------------------------------------------ addresses
\* Strings are sequences of ASCII codes, so that eq_ignore_ascii_case is computed.
AsciiLower(c) == IF c >= 65 /\ c <= 90 THEN c + 32 ELSE c

EqIgnoreAsciiCase(a, b) ==
    /\ Len(a) = Len(b)
    /\ \A i \in 1..Len(a) : AsciiLower(a[i]) = AsciiLower(b[i])

AddrTargetUpper == <<66, 56>>   \* "B8", as the adapter prints the address
AddrTargetLower == <<98, 56>>   \* "b8", as a user may type it
AddrOther == <<67, 56>>         \* "C8"

\* ------------------------------------------------------- configuration
\* struct Config (the fields the pipeline reads); Config::default() is continuous
\* with a threshold above zero, and every field is an unchecked u64, bool or String
ConfigContinuous ==
    [target_mac |-> AddrTargetLower, scan_timeout_secs |-> 1, scan_pause_secs |-> 0,
     duplicate_threshold_secs |-> 1, continuous_mode |-> TRUE]

ConfigBounded ==
    [target_mac |-> AddrTargetLower, scan_timeout_secs |-> 1, scan_pause_secs |-> 0,
     duplicate_threshold_secs |-> 0, continuous_mode |-> FALSE]

Configs == {ConfigContinuous, ConfigBounded}

\* the value of current_config before the scanner's first read (never used)
UnreadConfig == ConfigContinuous

VARIABLES
    now,             \* the monotonic clock (Instant::now()), in ticks
    shared_config,   \* Arc<Mutex<Config>>
    procQ,           \* channel scanner_tx -> processor_rx
    guiQ,            \* channel gui_tx -> gui_rx
    guiAlive,        \* gui_rx has not been dropped
    procPc,          \* background_data_processor: "Running" | "Done"
    last_save_time,  \* background_data_processor: Option<Instant>
    csvFile,         \* today's log file: whether it exists, and its records
    procLast,        \* what the last step of the stage did (history)
    acceptedAt,      \* Instant of the most recently accepted reading (history)
    writeAttempts,   \* number of calls of log_to_csv so far (history)
    scanPc,          \* bluetooth_scanner: where the task is
    current_config,  \* bluetooth_scanner: the snapshot read at the top of the cycle
    timer,           \* bluetooth_scanner: expiry of the running timeout or sleep
    scanActive,      \* start_scan succeeded and stop_scan was not called since
    scanLast,        \* what the last step of the scanner did (history)
    cycleReadings,   \* Readings sent in the current cycle (history)
    streak,          \* consecutive failures of Manager::new and what was sent (history)
    stream,          \* which advertisement events the adapter can deliver
    history,         \* TempMonitorApp.history as load_history_from_csv left it
    loadPc,          \* load_history_from_csv: "NotLoaded" | "Loaded" | "Panicked"
    logged           \* what earlier runs of the day wrote with log_to_csv (history)

procVars == <<procPc, last_save_time, csvFile, procLast, acceptedAt, writeAttempts>>
scanVars == <<scanPc, current_config, timer, scanActive, scanLast, cycleReadings, streak>>

envVars == <<stream, history, loadPc, logged>>

vars == <<now, shared_config, procQ, guiQ, guiAlive, procVars, scanVars, envVars>>

\* ------------------------------------------------------ payload decoder
\* i16::from_le_bytes([lo, hi])
I16FromLeBytes(lo, hi) ==
    LET u == lo + 256 * hi IN IF u >= 32768 THEN u - 65536 ELSE u

\* HighByte that takes the low byte of the company id
LowByte(company_id) == company_id % 256

\* (company_id >> 8) as u8
HighByte(company_id) == (company_id \div 256) % 256

\* temperature in tenths of a degree (the code divides by 10.0 into an f32)
DecodeTemp(company_id, data) == I16FromLeBytes(HighByte(company_id), data[1])
DecodeHum(data) == data[2]

\* ---------------------------------------------------------- channels
\* Send that puts the message at the head of the queue
SendAtHead(q, alive, m) == IF alive THEN <<m>> \o q ELSE q

\* mpsc::Sender::send: the message is queued while the receiver lives, else Err
Send(q, alive, m) == IF alive THEN Append(q, m) ELSE q

\* the same for several messages in a row
SendAll(q, alive, ms) == IF alive THEN q \o ms ELSE q

\* ------------------------------------------------------ debounce stage
\* Instant::duration_since
DurationSince(t, earlier) == IF t >= earlier THEN t - earlier ELSE 0

\* Duration::as_secs: whole seconds, truncated
AsSecs(d) == d \div TicksPerSec

\* ShouldSave with the comparison turned round
ShouldSaveWithin(last, t, cfg) ==
    IF last = None THEN TRUE
    ELSE AsSecs(DurationSince(t, last[1])) <= cfg.duplicate_threshold_secs

\* last_save_time.map_or(true, |last| now.duration_since(last).as_secs() >= threshold)
ShouldSave(last, t, cfg) ==
    IF last = None THEN TRUE
    ELSE AsSecs(DurationSince(t, last[1])) >= cfg.duplicate_threshold_secs

\* ------------------------------------------------------- the daily log
\* Text is a sequence of one-character strings; a record of the file is a sequence
\* of fields (the csv writer separates them with ';' and quotes none of these).
Digit(d) == <<"0", "1", "2", "3", "4", "5", "6", "7", "8", "9">>[d + 1]

IsDigit(c) == c \in {"0", "1", "2", "3", "4", "5", "6", "7", "8", "9"}

DigitValue(c) == CHOOSE d \in 0..9 : Digit(d) = c

Abs(n) == IF n < 0 THEN -n ELSE n

\* Display of an unsigned integer
RECURSIVE Decimal(_)
Decimal(n) == IF n < 10 THEN <<Digit(n)>> ELSE Append(Decimal(n \div 10), Digit(n % 10))

\* a number printed in two digits (%m, %d, %H, %M, %S)
Pad2(n) == <<Digit((n \div 10) % 10), Digit(n % 10)>>

\* the value of a run of digits
RECURSIVE DigitsValue(_)
DigitsValue(s) ==
    IF s = <<>> THEN 0
    ELSE 10 * DigitsValue(SubSeq(s, 1, Len(s) - 1)) + DigitValue(s[Len(s)])

AllDigits(s) == s # <<>> /\ \A i \in 1..Len(s) : IsDigit(s[i])

\* format!("{:.1}", temp).replace('.', ","), temp being tenths / 10.0 as an f32:
\* an f32 is within 2^-12 of tenths / 10, so one decimal prints tenths / 10 itself
FormatTemp(tenths) ==
    (IF tenths < 0 THEN <<"-">> ELSE <<>>)
        \o Decimal(Abs(tenths) \div 10) \o <<",", Digit(Abs(tenths) % 10)>>

\* hum.to_string()
FormatHum(hum) == Decimal(hum)

\* Local::now() as the log sees it: the calendar date and the second of the day
WallTime(y, m, d, secs) == [year |-> y, month |-> m, day |-> d, secs |-> secs]

\* now.format("%Y.%m.%d")
FormatDate(w) == Decimal(w.year) \o <<".">> \o Pad2(w.month) \o <<".">> \o Pad2(w.day)

\* now.format("%H:%M:%S")
FormatTime(w) ==
    Pad2(w.secs \div 3600) \o <<":">> \o Pad2((w.secs \div 60) % 60)
        \o <<":">> \o Pad2(w.secs % 60)

\* the wall clock when the monotonic clock shows t: the pipeline runs within one day
WallClock(t) == WallTime(2025, 10, 26, 43200 + AsSecs(t))

\* line 354: the header record
CsvHeader ==
    << <<"D", "a", "t", "u", "m">>, <<"C", "a", "s">>,
       <<"T", "e", "p", "l", "o", "t", "a">>, <<"V", "l", "h", "k", "o", "s", "t">> >>

\* line 356: the data record
CsvRow(w, temp, hum) == <<FormatDate(w), FormatTime(w), FormatTemp(temp), FormatHum(hum)>>

\* the daily file: whether it exists, and its records
AbsentFile == [exists |-> FALSE, rows |-> <<>>]

\* how far a call of log_to_csv gets: the open fails (line 352), a write or the flush
\* fails after the open created the file (lines 354-357), or all of it succeeds
LogOutcomes == {"ok", "open_failed", "write_failed"}

\* the outcomes drawn where the stage runs in the pipeline: success, and the failure
\* that leaves the file as it was
StageLogOutcomes == {"ok", "open_failed"}

\* LogToCsv that writes the header in every call
LogToCsvHeaderEachCall(file, w, temp, hum, outcome) ==
    CASE outcome = "open_failed" -> file
      [] outcome = "write_failed" -> [exists |-> TRUE, rows |-> file.rows]
      [] outcome = "ok" ->
           [exists |-> TRUE, rows |-> file.rows \o <<CsvHeader, CsvRow(w, temp, hum)>>]

\* LogToCsv that opens the file truncated
LogToCsvTruncating(file, w, temp, hum, outcome) ==
    LET header == IF file.exists THEN <<>> ELSE <<CsvHeader>>
    IN CASE outcome = "open_failed" -> file
         [] outcome = "write_failed" -> [exists |-> TRUE, rows |-> <<>>]
         [] outcome = "ok" -> [exists |-> TRUE, rows |-> header \o <<CsvRow(w, temp, hum)>>]

\* log_to_csv: append(true).create(true), the header if the file did not exist, the row
LogToCsv(file, w, temp, hum, outcome) ==
    LET file_exists == file.exists
        header == IF file_exists THEN <<>> ELSE <<CsvHeader>>
    IN CASE outcome = "open_failed" -> file
         [] outcome = "write_failed" -> [exists |-> TRUE, rows |-> file.rows]
         [] outcome = "ok" ->
              [exists |-> TRUE, rows |-> file.rows \o header \o <<CsvRow(w, temp, hum)>>]

\* Result: <<v>> is Ok(v), <<>> is Err
Ok(v) == <<v>>
Err == <<>>

\* str::parse::<f32> of temp_str.replace(',', "."), as tenths of a degree, for the
\* texts the log holds: an optional sign, digits, and at most one decimal
ParseTemp(s) ==
    LET signed == s # <<>> /\ s[1] \in {"-", "+"}
        body == IF signed THEN SubSeq(s, 2, Len(s)) ELSE s
        point == {i \in 1..Len(body) : body[i] \in {",", "."}}
        whole == IF point = {} THEN body
                 ELSE SubSeq(body, 1, (CHOOSE i \in point : TRUE) - 1)
        frac == IF point = {} THEN <<>>
                ELSE SubSeq(body, (CHOOSE i \in point : TRUE) + 1, Len(body))
        tenths == 10 * DigitsValue(whole) + (IF frac = <<>> THEN 0 ELSE DigitValue(frac[1]))
    IN IF /\ Cardinality(point) <= 1
          /\ AllDigits(whole)
          /\ Len(frac) <= 1
          /\ \A i \in 1..Len(frac) : IsDigit(frac[i])
       THEN Ok(IF signed /\ s[1] = "-" THEN -tenths ELSE tenths)
       ELSE Err

\* str::parse::<u8>
ParseHum(s) ==
    LET body == IF s # <<>> /\ s[1] = "+" THEN SubSeq(s, 2, Len(s)) ELSE s
    IN IF AllDigits(body) /\ Len(body) <= 3 /\ DigitsValue(body) <= 255
       THEN Ok(DigitsValue(body))
       ELSE Err

\* NaiveDateTime::parse_from_str(&format!("{} {}", date, time), "%Y.%m.%d %H:%M:%S")
\* for the texts the log holds
ParseDateTime(date, time) ==
    IF /\ Len(date) = 10 /\ date[5] = "." /\ date[8] = "."
       /\ AllDigits(SubSeq(date, 1, 4)) /\ AllDigits(SubSeq(date, 6, 7))
       /\ AllDigits(SubSeq(date, 9, 10))
       /\ Len(time) = 8 /\ time[3] = ":" /\ time[6] = ":"
       /\ AllDigits(SubSeq(time, 1, 2)) /\ AllDigits(SubSeq(time, 4, 5))
       /\ AllDigits(SubSeq(time, 7, 8))
       /\ DigitsValue(SubSeq(date, 6, 7)) \in 1..12
       /\ DigitsValue(SubSeq(date, 9, 10)) \in 1..31
       /\ DigitsValue(SubSeq(time, 1, 2)) <= 23
       /\ DigitsValue(SubSeq(time, 4, 5)) <= 59
       /\ DigitsValue(SubSeq(time, 7, 8)) <= 59
    THEN Ok(WallTime(DigitsValue(SubSeq(date, 1, 4)), DigitsValue(SubSeq(date, 6, 7)),
                     DigitsValue(SubSeq(date, 9, 10)),
                     3600 * DigitsValue(SubSeq(time, 1, 2))
                         + 60 * DigitsValue(SubSeq(time, 4, 5))
                         + DigitsValue(SubSeq(time, 7, 8))))
    ELSE Err

\* naive_dt.and_local_timezone(Local): a local time that the clocks show twice, in the
\* hour after summer time ends, is LocalResult::Ambiguous (here Europe/Prague in 2025)
LocalResult(w) ==
    IF w.year = 2025 /\ w.month = 10 /\ w.day = 26 /\ w.secs >= 7200 /\ w.secs < 10800
    THEN "Ambiguous"
    ELSE "Single"

\* lines 377-383: what one record adds to the history: nothing, a point, or the
\* panic of LocalResult::unwrap
ParseRecord(r) ==
    IF Len(r) < 4 THEN "skip"
    ELSE LET naive_dt == ParseDateTime(r[1], r[2])
         IN IF naive_dt = Err THEN "skip"
            ELSE IF ParseTemp(r[3]) = Err \/ ParseHum(r[4]) = Err THEN "skip"
            ELSE IF LocalResult(naive_dt[1]) # "Single" THEN "panic"
            ELSE "point"

\* HistoryPoint { timestamp, temp, hum } of a record that parses
HistoryPoint(r) ==
    [timestamp |-> ParseDateTime(r[1], r[2])[1],
     temp |-> ParseTemp(r[3])[1], hum |-> ParseHum(r[4])[1]]

\* rdr.records(): the reader takes the first record of the file as the header
Records(file) == IF file.rows = <<>> THEN <<>> ELSE Tail(file.rows)

\* load_history_from_csv with load_all_history (the default): the points of today's
\* file in the order of its records, or the panic
LoadHistoryFromCsv(file) ==
    LET records == IF file.exists THEN Records(file) ELSE <<>>
        kept == SelectSeq(records, LAMBDA r : ParseRecord(r) = "point")
    IN IF \E i \in 1..Len(records) : ParseRecord(records[i]) = "panic"
       THEN [panicked |-> TRUE, points |-> <<>>]
       ELSE [panicked |-> FALSE,
             points |-> [i \in 1..Len(kept) |-> HistoryPoint(kept[i])]]

\* history: why a reading was accepted or suppressed, told from the Instant of the
\* last accepted reading: the first one, a zero threshold, enough time elapsed, or not
Why ==
    IF acceptedAt = None THEN "first"
    ELSE IF shared_config.duplicate_threshold_secs = 0 THEN "zero"
    ELSE IF now - acceptedAt[1] >= shared_config.duplicate_threshold_secs * TicksPerSec
         THEN "elapsed"
         ELSE "below"

\* history of a step on a reading: its kind, the outcome of the write, why, and
\* whether the step before it suppressed a reading
ReadingStep(kind, write_ok) ==
    [kind |-> kind, write_ok |-> write_ok, why |-> Why,
     after |-> procLast.kind = "suppressed"]

\* history of a step on any other message
ProcStep(kind, write_ok) ==
    [kind |-> kind, write_ok |-> write_ok, why |-> "none", after |-> FALSE]

\* AdvanceLastSave that forgets the Instant when the write failed
AdvanceLastSaveClearsOnFailure(last, t, write_ok) == IF write_ok THEN Some(t) ELSE None

\* AdvanceLastSave that keeps the Instant of the first accepted reading
AdvanceLastSaveKeepsFirst(last, t, write_ok) == IF last = None THEN Some(t) ELSE last

\* AdvanceLastSave that keeps the old Instant when the write failed
AdvanceLastSaveIfWritten(last, t, write_ok) == IF write_ok THEN Some(t) ELSE last

\* line 415: last_save_time = Some(now), whatever the write did
AdvanceLastSave(last, t, write_ok) == Some(t)

ProcReceives(type) ==
    /\ procPc = "Running"
    /\ procQ # <<>>
    /\ Head(procQ).type = type

\* AppMessage::NewData, should_save: write, report, advance the clock, forward
AcceptReading ==
    /\ ProcReceives("NewData")
    /\ ShouldSave(last_save_time, now, shared_config)
    /\ \E outcome \in StageLogOutcomes :
         LET m == Head(procQ)
             write_ok == outcome = "ok"
         IN
         /\ csvFile' = LogToCsv(csvFile, WallClock(now), m.temp, m.hum, outcome)
         /\ guiQ' = Send(Send(guiQ, guiAlive, CsvWriteStatus(write_ok)), guiAlive, m)
         /\ procLast' = ReadingStep("accepted", write_ok)
         /\ last_save_time' = AdvanceLastSave(last_save_time, now, write_ok)
    /\ acceptedAt' = Some(now)
    /\ writeAttempts' = writeAttempts + 1
    /\ procQ' = Tail(procQ)
    /\ procPc' = IF guiAlive THEN "Running" ELSE "Done"
    /\ UNCHANGED <<envVars, now, shared_config, guiAlive, scanVars>>

\* the same while the count of log_to_csv calls and the consumer channel are
\* within their bounds
ProcAccept ==
    /\ writeAttempts < MaxWrites
    /\ Len(guiQ) + 2 <= MaxQueue
    /\ AcceptReading

\* ProcSuppress that restarts the interval at the suppressed reading
ProcSuppressResetsClock ==
    /\ ProcReceives("NewData")
    /\ ~ShouldSave(last_save_time, now, shared_config)
    /\ procQ' = Tail(procQ)
    /\ procLast' = ReadingStep("suppressed", FALSE)
    /\ last_save_time' = Some(now)
    /\ UNCHANGED <<envVars, now, shared_config, guiQ, guiAlive, procPc,
                   csvFile, acceptedAt, writeAttempts, scanVars>>

\* ProcSuppress that still forwards the reading
ProcSuppressForwards ==
    /\ ProcReceives("NewData")
    /\ ~ShouldSave(last_save_time, now, shared_config)
    /\ Len(guiQ) + 1 <= MaxQueue
    /\ procQ' = Tail(procQ)
    /\ guiQ' = Send(guiQ, guiAlive, Head(procQ))
    /\ procLast' = ReadingStep("suppressed", FALSE)
    /\ UNCHANGED <<envVars, now, shared_config, guiAlive, procPc, last_save_time,
                   csvFile, acceptedAt, writeAttempts, scanVars>>

\* AppMessage::NewData, !should_save: the reading is skipped
ProcSuppress ==
    /\ ProcReceives("NewData")
    /\ ~ShouldSave(last_save_time, now, shared_config)
    /\ procQ' = Tail(procQ)
    /\ procLast' = ReadingStep("suppressed", FALSE)
    /\ UNCHANGED <<envVars, now, shared_config, guiQ, guiAlive, procPc, last_save_time,
                   csvFile, acceptedAt, writeAttempts, scanVars>>

\* ProcStatus that ignores the failed send
ProcStatusKeepsRunning ==
    /\ ProcReceives("StatusUpdate")
    /\ Len(guiQ) + 1 <= MaxQueue
    /\ guiQ' = Send(guiQ, guiAlive, Head(procQ))
    /\ procQ' = Tail(procQ)
    /\ procLast' = ProcStep("status", FALSE)
    /\ UNCHANGED <<envVars, now, shared_config, guiAlive, procPc, last_save_time, csvFile,
                   acceptedAt, writeAttempts, scanVars>>

\* AppMessage::StatusUpdate: forwarded, or the stage ends if the GUI is gone
ProcStatus ==
    /\ ProcReceives("StatusUpdate")
    /\ Len(guiQ) + 1 <= MaxQueue
    /\ guiQ' = Send(guiQ, guiAlive, Head(procQ))
    /\ procQ' = Tail(procQ)
    /\ procPc' = IF guiAlive THEN "Running" ELSE "Done"
    /\ procLast' = ProcStep("status", FALSE)
    /\ UNCHANGED <<envVars, now, shared_config, guiAlive, last_save_time, csvFile,
                   acceptedAt, writeAttempts, scanVars>>

\* ProcIgnore that forwards the message it drops
ProcIgnoreForwards ==
    /\ ProcReceives("CsvWriteStatus")
    /\ Len(guiQ) + 1 <= MaxQueue
    /\ procQ' = Tail(procQ)
    /\ guiQ' = Send(guiQ, guiAlive, Head(procQ))
    /\ procLast' = ProcStep("ignored", FALSE)
    /\ UNCHANGED <<envVars, now, shared_config, guiAlive, procPc, last_save_time,
                   csvFile, acceptedAt, writeAttempts, scanVars>>

\* _ => {} : any other message is dropped
ProcIgnore ==
    /\ ProcReceives("CsvWriteStatus")
    /\ procQ' = Tail(procQ)
    /\ procLast' = ProcStep("ignored", FALSE)
    /\ UNCHANGED <<envVars, now, shared_config, guiQ, guiAlive, procPc, last_save_time,
                   csvFile, acceptedAt, writeAttempts, scanVars>>

\* ------------------------------------------------------------------ GUI
\* TempMonitorApp::update: while let Ok(message) = self.rx.try_recv() { ... }
GuiUpdate ==
    /\ guiAlive
    /\ guiQ # <<>>
    /\ guiQ' = <<>>
    /\ UNCHANGED <<envVars, now, shared_config, procQ, guiAlive, procVars, scanVars>>

\* draw_settings_window: *shared = self.config.clone()
GuiWriteConfig ==
    /\ guiAlive
    /\ \E c \in Configs : c # shared_config /\ shared_config' = c
    /\ UNCHANGED <<envVars, now, procQ, guiQ, guiAlive, procVars, scanVars>>

\* the application is dropped on exit, and gui_rx with it
GuiDrop ==
    /\ guiAlive
    /\ guiAlive' = FALSE
    /\ guiQ' = <<>>
    /\ UNCHANGED <<envVars, now, shared_config, procQ, procVars, scanVars>>

\* --------------------------------------------------------------- clock
Tick ==
    /\ now < MaxTime
    /\ now' = now + 1
    /\ UNCHANGED <<envVars, shared_config, procQ, guiQ, guiAlive, procVars, scanVars>>

\* -------------------------------------------------- devices in range
\* what the adapter can deliver during a scan: every event of Events, or only the
\* one event of the one device in range
AnyEvent == [any |-> TRUE, event |-> <<>>]
OnlyEvent(e) == [any |-> FALSE, event |-> e]

\* ------------------------------------------- the stage with any producer
StageReadings == {<<-10, 255>>}

StageMessages ==
    {NewData(r[1], r[2]) : r \in StageReadings}
        \cup {StatusUpdate(s) : s \in {StatusScanning, StatusWaiting}}
        \cup {CsvWriteStatus(TRUE)}

\* whoever holds scanner_tx sends a message
StageInput ==
    /\ procPc = "Running"
    /\ Len(procQ) < MaxQueue
    /\ \E m \in StageMessages : procQ' = Append(procQ, m)
    /\ UNCHANGED <<envVars, now, shared_config, guiQ, guiAlive, procVars, scanVars>>

\* what holds when TempMonitorApp::new has spawned the worker, before any message
ProcInit ==
    /\ now = 0
    /\ shared_config \in Configs
    /\ procQ = <<>>
    /\ guiQ = <<>>
    /\ guiAlive = TRUE
    /\ procPc = "Running"
    /\ last_save_time = None
    /\ csvFile = AbsentFile
    /\ procLast = [kind |-> "none", write_ok |-> FALSE, why |-> "none", after |-> FALSE]
    /\ acceptedAt = None
    /\ writeAttempts = 0
    /\ current_config = UnreadConfig
    /\ timer = None
    /\ scanActive = FALSE
    /\ scanLast = [kind |-> "none", stale |-> FALSE]
    /\ cycleReadings = 0
    /\ streak = [fails |-> 0, sent |-> <<>>]
    /\ history = <<>>
    /\ loadPc = "Loaded"
    /\ logged = <<>>

\* the stage alone: the sender of its inbound channel is any producer
StageInit == ProcInit /\ scanPc = "Idle" /\ stream = AnyEvent

StageNext ==
    \/ StageInput
    \/ ProcAccept
    \/ ProcSuppress
    \/ ProcStatus
    \/ ProcIgnore
    \/ GuiUpdate
    \/ GuiWriteConfig
    \/ GuiDrop
    \/ Tick

SpecStage == StageInit /\ [][StageNext]_vars

\* ------------------------------------------------------------ scan loop
\* A CentralEvent as the loop sees it: its kind, whether central.peripheral(&id)
\* and p.properties() resolve, the advertised address, and the manufacturer data
\* in the iteration order of the map.
MfrEntry(company_id, data) == [company_id |-> company_id, data |-> data]

Events ==
    { [kind |-> "DeviceUpdated", resolved |-> TRUE, address |-> AddrTargetUpper,
       mfr |-> <<MfrEntry(63170, <<255, 255>>)>>],
      [kind |-> "DeviceDiscovered", resolved |-> TRUE, address |-> AddrOther,
       mfr |-> <<MfrEntry(63170, <<255, 255>>)>>],
      [kind |-> "DeviceUpdated", resolved |-> TRUE, address |-> AddrTargetUpper,
       mfr |-> <<MfrEntry(63170, <<255>>)>>],
      [kind |-> "DeviceDiscovered", resolved |-> TRUE, address |-> AddrTargetUpper,
       mfr |-> <<>>],
      [kind |-> "DeviceUpdated", resolved |-> FALSE, address |-> AddrTargetUpper,
       mfr |-> <<MfrEntry(63170, <<255, 255>>)>>],
      [kind |-> "DeviceConnected", resolved |-> TRUE, address |-> AddrTargetUpper,
       mfr |-> <<MfrEntry(63170, <<255, 255>>)>>] }

\* the events the adapter can deliver
Delivered == IF stream.any THEN Events ELSE {stream.event}

\* Decodable that compares with the shared configuration as it is now
DecodableLive(e, cfg) ==
    /\ e.kind \in {"DeviceDiscovered", "DeviceUpdated"}
    /\ e.resolved
    /\ EqIgnoreAsciiCase(e.address, shared_config.target_mac)
    /\ e.mfr # <<>>
    /\ Len(e.mfr[1].data) >= MinPayloadLen

\* the conditions of lines 466-472: does the event yield a data point
Decodable(e, cfg) ==
    /\ e.kind \in {"DeviceDiscovered", "DeviceUpdated"}
    /\ e.resolved
    /\ EqIgnoreAsciiCase(e.address, cfg.target_mac)
    /\ e.mfr # <<>>
    /\ Len(e.mfr[1].data) >= MinPayloadLen

DataPoint(e) ==
    NewData(DecodeTemp(e.mfr[1].company_id, e.mfr[1].data), DecodeHum(e.mfr[1].data))

\* ScanDuration that takes the configured timeout in both modes
ScanDurationConfigured(cfg) == cfg.scan_timeout_secs

\* if continuous_mode { 60 } else { scan_timeout_secs }
ScanDuration(cfg) ==
    IF cfg.continuous_mode THEN ContinuousScanSecs ELSE cfg.scan_timeout_secs

\* PauseDuration read from the shared cell instead of the snapshot
PauseDurationLive(cfg) ==
    IF shared_config.continuous_mode THEN ContinuousPauseSecs
    ELSE shared_config.scan_pause_secs

\* if continuous_mode { 1 } else { scan_pause_secs }
PauseDuration(cfg) ==
    IF cfg.continuous_mode THEN ContinuousPauseSecs ELSE cfg.scan_pause_secs

\* if continuous_mode { "Skenuji (kontinualni rezim)..." } else { "Skenuji..." }
ScanningStatus(cfg) ==
    IF cfg.continuous_mode THEN StatusScanningContinuous ELSE StatusScanning

\* ReturnsAfterSend without the early return
ReturnsNever(cfg) == FALSE

\* line 478: if !current_config.continuous_mode { return; }
ReturnsAfterSend(cfg) == ~cfg.continuous_mode

\* Instant + Duration::from_secs(secs)
After(t, secs) == Some(t + secs * TicksPerSec)

Expired(tm, t) == tm # None /\ t >= tm[1]

\* processor_rx lives as long as background_data_processor runs
ProcAlive == procPc = "Running"

\* room in the inbound channel for k more messages (the channel itself is unbounded)
Room(k) == ProcAlive => Len(procQ) + k <= MaxQueue

\* history of a step that sends from a running scan or ends it: its kind, and whether
\* the shared configuration then differed from the snapshot
ScanStep(kind) == [kind |-> kind, stale |-> shared_config # current_config]

\* OpenFailureMessages falling through to the waiting status
OpenFailureMessagesAndWaiting ==
    <<StatusUpdate(StatusAdapterError), StatusUpdate(StatusWaiting)>>

\* line 452: what the scanner sends when Manager::new() fails
OpenFailureMessages == <<StatusUpdate(StatusAdapterError)>>

\* lines 446-455: Manager::new() fails: status, sleep, continue
ManagerOpenFails ==
    /\ scanPc = "AcquireAdapter"
    /\ streak.fails < MaxStreak
    /\ Room(Len(OpenFailureMessages))
    /\ current_config' = shared_config
    /\ procQ' = SendAll(procQ, ProcAlive, OpenFailureMessages)
    /\ timer' = After(now, PauseDuration(shared_config))
    /\ scanPc' = "Sleeping"
    /\ streak' = [fails |-> streak.fails + 1,
                  sent |-> streak.sent \o OpenFailureMessages]
    /\ scanLast' = [kind |-> "open_failed", stale |-> FALSE]
    /\ cycleReadings' = 0
    /\ UNCHANGED <<envVars, now, shared_config, guiQ, guiAlive, procVars, scanActive>>

\* NoAdapter that sends the scanning status before the waiting status
NoAdapterAnnounces ==
    /\ scanPc = "AcquireAdapter"
    /\ Room(2)
    /\ current_config' = shared_config
    /\ procQ' = Send(Send(procQ, ProcAlive, StatusUpdate(ScanningStatus(shared_config))),
                     ProcAlive, StatusUpdate(StatusWaiting))
    /\ timer' = After(now, PauseDuration(shared_config))
    /\ scanPc' = "Sleeping"
    /\ streak' = [fails |-> 0, sent |-> <<>>]
    /\ scanLast' = [kind |-> "no_adapter", stale |-> FALSE]
    /\ cycleReadings' = 0
    /\ UNCHANGED <<envVars, now, shared_config, guiQ, guiAlive, procVars, scanActive>>

\* lines 446-457, 491-494: the manager opens but lists no adapter: pause
NoAdapter ==
    /\ scanPc = "AcquireAdapter"
    /\ Room(1)
    /\ current_config' = shared_config
    /\ procQ' = Send(procQ, ProcAlive, StatusUpdate(StatusWaiting))
    /\ timer' = After(now, PauseDuration(shared_config))
    /\ scanPc' = "Sleeping"
    /\ streak' = [fails |-> 0, sent |-> <<>>]
    /\ scanLast' = [kind |-> "no_adapter", stale |-> FALSE]
    /\ cycleReadings' = 0
    /\ UNCHANGED <<envVars, now, shared_config, guiQ, guiAlive, procVars, scanActive>>

\* lines 446-461, 491-494: start_scan fails after the scanning status: pause
StartScanFails ==
    /\ scanPc = "AcquireAdapter"
    /\ Room(2)
    /\ current_config' = shared_config
    /\ procQ' = Send(Send(procQ, ProcAlive, StatusUpdate(ScanningStatus(shared_config))),
                     ProcAlive, StatusUpdate(StatusWaiting))
    /\ timer' = After(now, PauseDuration(shared_config))
    /\ scanPc' = "Sleeping"
    /\ streak' = [fails |-> 0, sent |-> <<>>]
    /\ scanLast' = [kind |-> "start_failed", stale |-> FALSE]
    /\ cycleReadings' = 0
    /\ UNCHANGED <<envVars, now, shared_config, guiQ, guiAlive, procVars, scanActive>>

\* lines 446-464: the scan starts, the timeout is armed, the event stream opens
StartScan ==
    /\ scanPc = "AcquireAdapter"
    /\ Room(1)
    /\ current_config' = shared_config
    /\ procQ' = Send(procQ, ProcAlive, StatusUpdate(ScanningStatus(shared_config)))
    /\ scanActive' = TRUE
    /\ timer' = After(now, ScanDuration(shared_config))
    /\ scanPc' = "Scanning"
    /\ streak' = [fails |-> 0, sent |-> <<>>]
    /\ scanLast' = [kind |-> "started", stale |-> FALSE]
    /\ cycleReadings' = 0
    /\ UNCHANGED <<envVars, now, shared_config, guiQ, guiAlive, procVars>>

\* line 464: central.events().await.unwrap() panics: the task ends where it is
EventsFail ==
    /\ scanPc = "AcquireAdapter"
    /\ Room(1)
    /\ current_config' = shared_config
    /\ procQ' = Send(procQ, ProcAlive, StatusUpdate(ScanningStatus(shared_config)))
    /\ scanActive' = TRUE
    /\ timer' = None
    /\ scanPc' = "Panicked"
    /\ streak' = [fails |-> 0, sent |-> <<>>]
    /\ scanLast' = [kind |-> "panicked", stale |-> FALSE]
    /\ cycleReadings' = 0
    /\ UNCHANGED <<envVars, now, shared_config, guiQ, guiAlive, procVars>>

\* lines 488-494: stop_scan, the waiting status, the sleep
StopAndPause(q) ==
    /\ scanActive' = FALSE
    /\ procQ' = Send(q, ProcAlive, StatusUpdate(StatusWaiting))
    /\ timer' = After(now, PauseDuration(current_config))
    /\ scanPc' = "Sleeping"

\* ScanEventIgnored that reports the event it passes over
ScanEventIgnoredReports ==
    /\ scanPc = "Scanning"
    /\ Room(1)
    /\ \E e \in Delivered : ~Decodable(e, current_config)
    /\ procQ' = Send(procQ, ProcAlive, StatusUpdate(StatusAdapterError))
    /\ scanLast' = [kind |-> "ignored", stale |-> FALSE]
    /\ UNCHANGED <<envVars, now, shared_config, guiQ, guiAlive, procVars, scanPc,
                   current_config, timer, scanActive, cycleReadings, streak>>

\* lines 465-485: one event of the stream that yields no data point
ScanEventIgnored ==
    /\ scanPc = "Scanning"
    /\ \E e \in Delivered : ~Decodable(e, current_config)
    /\ scanLast' = [kind |-> "ignored", stale |-> FALSE]
    /\ UNCHANGED <<envVars, now, shared_config, procQ, guiQ, guiAlive, procVars, scanPc,
                   current_config, timer, scanActive, cycleReadings, streak>>

\* lines 465-478: a data point is sent; continuous mode reads on
ScanEmitContinue ==
    /\ scanPc = "Scanning"
    /\ ProcAlive
    /\ ~ReturnsAfterSend(current_config)
    /\ cycleReadings < MaxCycleReadings
    /\ Room(1)
    /\ \E e \in Delivered :
         /\ Decodable(e, current_config)
         /\ procQ' = Send(procQ, ProcAlive, DataPoint(e))
    /\ cycleReadings' = cycleReadings + 1
    /\ scanLast' = ScanStep("emitted")
    /\ UNCHANGED <<envVars, now, shared_config, guiQ, guiAlive, procVars, scanPc,
                   current_config, timer, scanActive, streak>>

\* lines 465-478, 488-494: a data point is sent in bounded mode: return, stop, pause
ScanEmitReturn ==
    /\ scanPc = "Scanning"
    /\ ProcAlive
    /\ ReturnsAfterSend(current_config)
    /\ cycleReadings < MaxCycleReadings
    /\ Room(2)
    /\ \E e \in Delivered :
         /\ Decodable(e, current_config)
         /\ StopAndPause(Send(procQ, ProcAlive, DataPoint(e)))
    /\ cycleReadings' = cycleReadings + 1
    /\ scanLast' = ScanStep("emitted")
    /\ UNCHANGED <<envVars, now, shared_config, guiQ, guiAlive, procVars, current_config, streak>>

\* lines 477, 488-494: the send fails: break out of the event loop, stop, pause
ScanSendFails ==
    /\ scanPc = "Scanning"
    /\ ~ProcAlive
    /\ \E e \in Delivered : Decodable(e, current_config)
    /\ StopAndPause(procQ)
    /\ scanLast' = ScanStep("send_failed")
    /\ UNCHANGED <<envVars, now, shared_config, guiQ, guiAlive, procVars, current_config,
                   cycleReadings, streak>>

\* lines 463, 486-494: the timeout elapses: stop, pause
ScanTimeout ==
    /\ scanPc = "Scanning"
    /\ Expired(timer, now)
    /\ Room(1)
    /\ StopAndPause(procQ)
    /\ scanLast' = ScanStep("timeout")
    /\ UNCHANGED <<envVars, now, shared_config, guiQ, guiAlive, procVars, current_config,
                   cycleReadings, streak>>

\* lines 453, 494: thread::sleep returns; the loop starts over
WakeUp ==
    /\ scanPc = "Sleeping"
    /\ Expired(timer, now)
    /\ scanPc' = "AcquireAdapter"
    /\ timer' = None
    /\ scanLast' = [kind |-> "woke", stale |-> FALSE]
    /\ UNCHANGED <<envVars, now, shared_config, procQ, guiQ, guiAlive, procVars, current_config,
                   scanActive, cycleReadings, streak>>

\* line 402: for received in rx ends once every sender is gone and the queue is empty
ProcDisconnected ==
    /\ procPc = "Running"
    /\ procQ = <<>>
    /\ scanPc = "Panicked"
    /\ procPc' = "Done"
    /\ procLast' = ProcStep("disconnected", FALSE)
    /\ UNCHANGED <<envVars, now, shared_config, procQ, guiQ, guiAlive, last_save_time, csvFile,
                   acceptedAt, writeAttempts, scanVars>>

\* the pipeline as TempMonitorApp::new starts it
Init == ProcInit /\ scanPc = "AcquireAdapter" /\ stream = AnyEvent

Next ==
    \/ ManagerOpenFails
    \/ NoAdapter
    \/ StartScanFails
    \/ StartScan
    \/ EventsFail
    \/ ScanEventIgnored
    \/ ScanEmitContinue
    \/ ScanEmitReturn
    \/ ScanSendFails
    \/ ScanTimeout
    \/ WakeUp
    \/ ProcAccept
    \/ ProcSuppress
    \/ ProcStatus
    \/ ProcDisconnected
    \/ GuiUpdate
    \/ GuiWriteConfig
    \/ GuiDrop
    \/ Tick

Spec == Init /\ [][Next]_vars

\* ------------------------------------------ the decoder on chosen payloads
\* a device at the target address that advertises one manufacturer-data map
TargetEvent(mfr) ==
    [kind |-> "DeviceUpdated", resolved |-> TRUE, address |-> AddrTargetUpper, mfr |-> mfr]

\* company ids and payload bytes at the edges of each byte and of the sign
DecodeEvents ==
    { TargetEvent(<<MfrEntry(c, <<b0, b1>> \o rest)>>) :
        c \in {0, 255, 256, 32767, 32768, 63170, 65535},
        b0 \in {0, 1, 127, 128, 255},
        b1 \in {0, 100, 101, 255},
        rest \in {<<>>, <<7>>} }
    \cup { TargetEvent(<<MfrEntry(63170, <<1, 2>>), MfrEntry(1, <<3, 4>>)>>),
           TargetEvent(<<MfrEntry(63170, <<255>>)>>),
           TargetEvent(<<MfrEntry(63170, <<>>)>>) }

\* a continuous scan is running, its scanning status already consumed, and one
\* device of DecodeEvents is in range
DecodeInit ==
    /\ now = 0
    /\ shared_config = ConfigContinuous
    /\ procQ = <<>>
    /\ guiQ = <<>>
    /\ guiAlive = TRUE
    /\ procPc = "Running"
    /\ last_save_time = None
    /\ csvFile = AbsentFile
    /\ procLast = [kind |-> "status", write_ok |-> FALSE, why |-> "none", after |-> FALSE]
    /\ acceptedAt = None
    /\ writeAttempts = 0
    /\ scanPc = "Scanning"
    /\ current_config = ConfigContinuous
    /\ timer = After(0, ScanDuration(ConfigContinuous))
    /\ scanActive = TRUE
    /\ scanLast = [kind |-> "started", stale |-> FALSE]
    /\ cycleReadings = 0
    /\ streak = [fails |-> 0, sent |-> <<>>]
    /\ stream \in {OnlyEvent(e) : e \in DecodeEvents}
    /\ history = <<>>
    /\ loadPc = "Loaded"
    /\ logged = <<>>

DecodeNext ==
    \/ ScanEventIgnored
    \/ ScanEmitContinue

SpecDecode == DecodeInit /\ [][DecodeNext]_vars

\* -------------------------------------- the scan loop and one device in range
\* configurations that differ in the target address and in the mode
ScanConfigs ==
    { [ConfigContinuous EXCEPT !.target_mac = a, !.continuous_mode = c] :
        a \in {AddrTargetLower, AddrTargetUpper, AddrOther}, c \in BOOLEAN }

\* devices and advertisements of every kind the event loop tells apart; a
\* manufacturer-data map is given in the order in which its iterator yields it
ScanEvents ==
    Events \cup
    { TargetEvent(<<MfrEntry(63170, <<255>>), MfrEntry(63170, <<255, 255>>)>>),
      TargetEvent(<<MfrEntry(63170, <<255, 255>>), MfrEntry(1, <<3, 4>>)>>) }

\* draw_settings_window: the target address is edited and the configuration shared
GuiWriteTarget ==
    /\ guiAlive
    /\ \E c \in ScanConfigs :
         /\ c.target_mac # shared_config.target_mac
         /\ c.continuous_mode = shared_config.continuous_mode
         /\ shared_config' = c
    /\ UNCHANGED <<envVars, now, procQ, guiQ, guiAlive, procVars, scanVars>>

ScanInit ==
    /\ ProcInit
    /\ scanPc = "AcquireAdapter"
    /\ stream \in {OnlyEvent(e) : e \in ScanEvents}

ScanNext ==
    \/ StartScan
    \/ ScanEventIgnored
    \/ ScanEmitContinue
    \/ ScanEmitReturn
    \/ ScanTimeout
    \/ WakeUp
    \/ ProcAccept
    \/ ProcSuppress
    \/ ProcStatus
    \/ GuiUpdate
    \/ GuiWriteTarget
    \/ Tick

SpecScan == ScanInit /\ [][ScanNext]_vars

\* ------------------------------------ the day's file from one run to the next
\* temperatures at the edges of the i16 and of the sign, humidities at the edges of
\* the byte and of each number of digits
CsvTemps == {-32768, -10, -1, 0, 204, 32767}
CsvHums == {0, 100, 255}

\* Local::now() of a call: a second of the hour the clocks show twice, and one of
\* the afternoon
CsvWalls == {WallTime(2025, 10, 26, 9000), WallTime(2025, 10, 26, 43205)}

\* the wall clock of the last call that wrote a record
LastLogged == IF logged = <<>> THEN 0 ELSE logged[Len(logged)].w.secs

\* an earlier run of the day: its stage calls log_to_csv for an accepted reading
CsvLog ==
    /\ loadPc = "NotLoaded"
    /\ writeAttempts < MaxCsvCalls
    /\ \E temp \in CsvTemps, hum \in CsvHums, w \in CsvWalls, outcome \in LogOutcomes :
         /\ w.secs >= LastLogged
         /\ csvFile' = LogToCsv(csvFile, w, temp, hum, outcome)
         /\ logged' = IF outcome = "ok"
                      THEN Append(logged, [w |-> w, temp |-> temp, hum |-> hum])
                      ELSE logged
    /\ writeAttempts' = writeAttempts + 1
    /\ UNCHANGED <<stream, history, loadPc, now, shared_config, procQ, guiQ, guiAlive,
                   procPc, last_save_time, procLast, acceptedAt, scanVars>>

\* line 109: TempMonitorApp::new of the next run reads the day's file
CsvLoad ==
    /\ loadPc = "NotLoaded"
    /\ LET loaded == LoadHistoryFromCsv(csvFile)
       IN /\ loadPc' = IF loaded.panicked THEN "Panicked" ELSE "Loaded"
          /\ history' = loaded.points
    /\ UNCHANGED <<stream, logged, now, shared_config, procQ, guiQ, guiAlive, procVars,
                   scanVars>>

\* no file of the day yet, no task running
CsvInit ==
    /\ now = 0
    /\ shared_config = ConfigContinuous
    /\ procQ = <<>>
    /\ guiQ = <<>>
    /\ guiAlive = TRUE
    /\ procPc = "Done"
    /\ last_save_time = None
    /\ csvFile = AbsentFile
    /\ procLast = [kind |-> "none", write_ok |-> FALSE, why |-> "none", after |-> FALSE]
    /\ acceptedAt = None
    /\ writeAttempts = 0
    /\ scanPc = "Idle"
    /\ current_config = UnreadConfig
    /\ timer = None
    /\ scanActive = FALSE
    /\ scanLast = [kind |-> "none", stale |-> FALSE]
    /\ cycleReadings = 0
    /\ streak = [fails |-> 0, sent |-> <<>>]
    /\ stream = AnyEvent
    /\ history = <<>>
    /\ loadPc = "NotLoaded"
    /\ logged = <<>>

CsvNext ==
    \/ CsvLog
    \/ CsvLoad

SpecCsv == CsvInit /\ [][CsvNext]_vars

\* ------------------------------------- the stage on a timed run of readings
\* the seconds at which the stage handles a reading, and the readings
ReplaySecs == {0, 10, 20, 35, 60}
ReplayReadings == {<<-10, 255>>, <<204, 45>>}

\* Config::default() in what the stage reads: duplicate_threshold_secs
ReplayConfig ==
    [ConfigContinuous EXCEPT !.duplicate_threshold_secs = DefaultDuplicateThresholdSecs]

\* the second of the next reading: the first one, then the next later one
ReplayDue ==
    IF procLast.kind = "none" THEN {0}
    ELSE LET later == {t \in ReplaySecs : t > AsSecs(now)}
         IN {t \in later : \A u \in later : t <= u}

\* a reading arrives and Instant::now() of line 407 falls in its second
ReplayReading ==
    /\ procPc = "Running"
    /\ procQ = <<>>
    /\ \E t \in ReplayDue, part \in 0..(TicksPerSec - 1), r \in ReplayReadings :
         /\ now' = t * TicksPerSec + part
         /\ procQ' = <<NewData(r[1], r[2])>>
    /\ UNCHANGED <<envVars, shared_config, guiQ, guiAlive, procVars, scanVars>>

\* the worker has been spawned with the default configuration; no scanner
ReplayInit ==
    /\ now = 0
    /\ shared_config = ReplayConfig
    /\ procQ = <<>>
    /\ guiQ = <<>>
    /\ guiAlive = TRUE
    /\ procPc = "Running"
    /\ last_save_time = None
    /\ csvFile = AbsentFile
    /\ procLast = [kind |-> "none", write_ok |-> FALSE, why |-> "none", after |-> FALSE]
    /\ acceptedAt = None
    /\ writeAttempts = 0
    /\ scanPc = "Idle"
    /\ current_config = UnreadConfig
    /\ timer = None
    /\ scanActive = FALSE
    /\ scanLast = [kind |-> "none", stale |-> FALSE]
    /\ cycleReadings = 0
    /\ streak = [fails |-> 0, sent |-> <<>>]
    /\ stream = AnyEvent
    /\ history = <<>>
    /\ loadPc = "Loaded"
    /\ logged = <<>>

ReplayNext ==
    \/ ReplayReading
    \/ AcceptReading
    \/ ProcSuppress
    \/ GuiUpdate

SpecReplay == ReplayInit /\ [][ReplayNext]_vars

\* ------------------------------------------- the scan loop up to its deadlines
\* Config::default() and the same with continuous_mode off: scan_timeout_secs and
\* scan_pause_secs are 20
DeadlineConfigs ==
    { [ReplayConfig EXCEPT !.scan_timeout_secs = 20, !.scan_pause_secs = 20,
                           !.continuous_mode = c] : c \in BOOLEAN }

\* tokio::time::timeout and thread::sleep: time passes until the running timer
\* expires; the task is woken then, so the clock does not pass the timer while the
\* scanner waits on it
Elapse ==
    /\ timer # None
    /\ now < timer[1]
    /\ timer[1] <= MaxElapsedSecs * TicksPerSec
    /\ now' = timer[1]
    /\ UNCHANGED <<envVars, shared_config, procQ, guiQ, guiAlive, procVars, scanVars>>

\* the pipeline as TempMonitorApp::new starts it, with the default configuration
\* in either mode
DeadlineInit ==
    /\ now = 0
    /\ shared_config \in DeadlineConfigs
    /\ procQ = <<>>
    /\ guiQ = <<>>
    /\ guiAlive = TRUE
    /\ procPc = "Running"
    /\ last_save_time = None
    /\ csvFile = AbsentFile
    /\ procLast = [kind |-> "none", write_ok |-> FALSE, why |-> "none", after |-> FALSE]
    /\ acceptedAt = None
    /\ writeAttempts = 0
    /\ scanPc = "AcquireAdapter"
    /\ current_config = UnreadConfig
    /\ timer = None
    /\ scanActive = FALSE
    /\ scanLast = [kind |-> "none", stale |-> FALSE]
    /\ cycleReadings = 0
    /\ streak = [fails |-> 0, sent |-> <<>>]
    /\ stream = AnyEvent
    /\ history = <<>>
    /\ loadPc = "Loaded"
    /\ logged = <<>>

DeadlineNext ==
    \/ StartScan
    \/ ScanEventIgnored
    \/ ScanEmitContinue
    \/ ScanEmitReturn
    \/ ScanTimeout
    \/ WakeUp
    \/ ProcAccept
    \/ ProcSuppress
    \/ ProcStatus
    \/ GuiUpdate
    \/ Elapse

SpecDeadline == DeadlineInit /\ [][DeadlineNext]_vars

\* ------------------------------------------------- start-up of the application
\* add_data_point for the NewData messages among those received, in order: a point
\* carries data.timestamp, the Local::now() of line 475, which is the wall clock
\* of some instant up to now
RECURSIVE AddDataPoints(_, _, _)
AddDataPoints(points, ms, stamps) ==
    IF ms = <<>> THEN points
    ELSE IF Head(ms).type # "NewData" THEN AddDataPoints(points, Tail(ms), stamps)
    ELSE AddDataPoints(
             Append(points, [timestamp |-> WallClock(stamps[Len(points) + 1]),
                             temp |-> Head(ms).temp, hum |-> Head(ms).hum]),
             Tail(ms), stamps)

\* TempMonitorApp::update, once new() has returned: every message of the channel
\* is taken, and each NewData goes through add_data_point (load_all_history, the
\* default, drops no point)
GuiUpdateHistory ==
    /\ guiAlive
    /\ loadPc = "Loaded"
    /\ guiQ # <<>>
    /\ guiQ' = <<>>
    /\ \E stamps \in [1..(Len(history) + Len(guiQ)) -> {0, now}] :
         history' = AddDataPoints(history, guiQ, stamps)
    /\ UNCHANGED <<stream, loadPc, logged, now, shared_config, procQ, guiAlive, procVars,
                   scanVars>>

\* the stage accepts a reading while the consumer channel, which nothing drains
\* before new() returns, has room for its two messages
StartupAccept ==
    /\ writeAttempts < MaxWrites
    /\ Len(guiQ) + 2 <= MaxStartupQueue
    /\ AcceptReading

\* lines 103-108: the worker and the scanner are spawned; line 109, the load of the
\* day's file, is still to come
StartupInit ==
    /\ now = 0
    /\ shared_config \in Configs
    /\ procQ = <<>>
    /\ guiQ = <<>>
    /\ guiAlive = TRUE
    /\ procPc = "Running"
    /\ last_save_time = None
    /\ csvFile = AbsentFile
    /\ procLast = [kind |-> "none", write_ok |-> FALSE, why |-> "none", after |-> FALSE]
    /\ acceptedAt = None
    /\ writeAttempts = 0
    /\ scanPc = "AcquireAdapter"
    /\ current_config = UnreadConfig
    /\ timer = None
    /\ scanActive = FALSE
    /\ scanLast = [kind |-> "none", stale |-> FALSE]
    /\ cycleReadings = 0
    /\ streak = [fails |-> 0, sent |-> <<>>]
    /\ stream = AnyEvent
    /\ history = <<>>
    /\ loadPc = "NotLoaded"
    /\ logged = <<>>

StartupNext ==
    \/ StartScan
    \/ ScanEventIgnored
    \/ ScanEmitContinue
    \/ ScanEmitReturn
    \/ ScanTimeout
    \/ WakeUp
    \/ StartupAccept
    \/ ProcSuppress
    \/ ProcStatus
    \/ CsvLoad
    \/ GuiUpdateHistory
    \/ Tick

SpecStartup == StartupInit /\ [][StartupNext]_vars

\* ================================================================ claims

\* the stage takes a reading off its inbound queue in this step
HandlesReading == ProcReceives("NewData") /\ procQ' = Tail(procQ)

\* the step calls log_to_csv: the reading is accepted
Accepts == writeAttempts' = writeAttempts + 1

\* C1: a reading is accepted if and only if no reading was accepted before it or
\* the time since the most recently accepted reading is at least the threshold;
\* readings suppressed in between do not restart the interval.
C1_AcceptedIffGreedy ==
    [][HandlesReading =>
        (Accepts <=>
            (acceptedAt = None
                \/ now - acceptedAt[1]
                     >= shared_config.duplicate_threshold_secs * TicksPerSec))]_vars

\* a reading accepted because enough time elapsed since the last accepted one,
\* right after a reading that was suppressed
C1_Witness ==
    procLast.kind = "accepted" /\ procLast.why = "elapsed" /\ procLast.after

\* C2: a suppressed reading (elapsed below the threshold) writes no row, sends no
\* message on the outbound channel and leaves the last-accepted time unchanged.
C2_SuppressedHasNoEffect ==
    [][(/\ HandlesReading
        /\ last_save_time # None
        /\ now - last_save_time[1] < shared_config.duplicate_threshold_secs * TicksPerSec)
        => /\ csvFile' = csvFile
           /\ writeAttempts' = writeAttempts
           /\ guiQ' = guiQ
           /\ last_save_time' = last_save_time
           /\ procPc' = procPc]_vars

C2_Witness == procLast.kind = "suppressed" /\ procLast.why = "below"

\* C3: when the write fails for a reading that passes the debounce rule, the
\* reading is still accepted: CsvWriteStatus(false) and then the reading are sent,
\* the last-accepted time becomes now, and log_to_csv is called once, not again.
C3_FailedWriteStillAccepts ==
    [][(/\ HandlesReading
        /\ \/ last_save_time = None
           \/ now - last_save_time[1]
                >= shared_config.duplicate_threshold_secs * TicksPerSec
        /\ ~procLast'.write_ok)
        => /\ csvFile'.rows = csvFile.rows
           /\ writeAttempts' = writeAttempts + 1
           /\ last_save_time' = Some(now)
           /\ guiQ' = IF guiAlive
                      THEN guiQ \o <<CsvWriteStatus(FALSE), Head(procQ)>>
                      ELSE guiQ]_vars

C3_Witness ==
    /\ procLast.kind = "accepted"
    /\ ~procLast.write_ok
    /\ last_save_time = Some(now)
    /\ Len(guiQ) >= 2
    /\ guiQ[Len(guiQ) - 1] = CsvWriteStatus(FALSE)
    /\ guiQ[Len(guiQ)].type = "NewData"

\* a reading handled at the very Instant at which a reading was accepted is suppressed
ReplaySuppressed ==
    (HandlesReading /\ acceptedAt = Some(now))
        => (writeAttempts' = writeAttempts /\ guiQ' = guiQ /\ csvFile' = csvFile)

\* C4 as stated: the replay is suppressed for every duplicate threshold.
C4_ReplaySuppressedAnyThreshold == [][ReplaySuppressed]_vars

\* C4 amended: the replay is suppressed when the duplicate threshold is at least
\* one second; with a threshold of zero every reading is accepted.
C4_ReplaySuppressedPositiveThreshold ==
    [][shared_config.duplicate_threshold_secs >= 1 => ReplaySuppressed]_vars

C4_Witness == procLast.kind = "suppressed" /\ acceptedAt = Some(now)

\* C5 as stated: after a send of a Reading failed, the scan task does nothing more.
C5_SendFailureEndsLoop ==
    [][scanLast.kind = "send_failed" => UNCHANGED scanVars]_vars

\* C6 as stated: no internal failure ends the scan task.
C6_NoFailureEndsScanTask == scanPc # "Panicked"

\* C7 as stated: once the outbound channel is closed the stage takes no further
\* message off its inbound queue and writes no further row.
C7_ClosedChannelStopsStage ==
    [][~guiAlive => (csvFile' = csvFile /\ Len(procQ') >= Len(procQ))]_vars

\* C7 amended: the stage notices the closed channel only when a send of a forwarded
\* message fails; that step ends the worker, and from then on no message is taken,
\* no row is written and the last-accepted time stays. A reading accepted after the
\* closure is still written before the worker ends, so at most one row follows it.
C7_FailedSendStopsStage ==
    [][/\ (/\ ~guiAlive
           /\ procQ # <<>>
           /\ procQ' = Tail(procQ)
           /\ (Head(procQ).type = "StatusUpdate" \/ Accepts))
          => procPc' = "Done"
       /\ (~guiAlive /\ csvFile' # csvFile) => procPc' = "Done"
       /\ procPc = "Done"
          => /\ procPc' = "Done"
             /\ procQ' = procQ
             /\ csvFile' = csvFile
             /\ writeAttempts' = writeAttempts
             /\ last_save_time' = last_save_time]_vars

\* the worker ended on a reading it had already written to the log
C7_Witness ==
    procPc = "Done" /\ ~guiAlive /\ procLast.kind = "accepted" /\ procLast.write_ok

\* while a scan is in progress the scanner works from its snapshot: the snapshot and
\* the deadline stay, the mode decides whether a sent Reading ends the scan, and the
\* pause that follows is the snapshot's
ScannerUsesSnapshot ==
    scanPc = "Scanning" =>
        /\ current_config' = current_config
        /\ scanPc' = "Scanning" => timer' = timer
        /\ cycleReadings' # cycleReadings
             => ((scanPc' = "Scanning") <=> current_config.continuous_mode)
        /\ scanPc' # "Scanning"
             => /\ scanPc' = "Sleeping"
                /\ timer' = Some(now + TicksPerSec *
                                 (IF current_config.continuous_mode
                                  THEN 1 ELSE current_config.scan_pause_secs))

\* the decision on a reading handled during a scan, by the threshold of config
DecisionUses(config) ==
    (scanPc = "Scanning" /\ HandlesReading)
        => (Accepts <=>
              (last_save_time = None
                  \/ now - last_save_time[1]
                       >= config.duplicate_threshold_secs * TicksPerSec))

\* C8 as stated: during a scan the scanner and the accept/suppress decisions both
\* follow the configuration read at the top of the cycle.
C8_NothingChangesMidCycle ==
    [][ScannerUsesSnapshot /\ DecisionUses(current_config)]_vars

\* C8 amended: a configuration write during a scan changes nothing in the scanner
\* (snapshot, mode, deadline, pause) until the next read at the top of the loop; the
\* debounce stage reads the shared configuration for every reading, so its
\* accept/suppress decisions follow the write at once.
C8_ScannerStaleStageLive ==
    [][ScannerUsesSnapshot /\ DecisionUses(shared_config)]_vars

\* a scan ended and the pause began while the shared configuration differed from
\* the snapshot
C8_Witness ==
    /\ scanPc = "Sleeping"
    /\ scanLast.kind \in {"emitted", "timeout", "send_failed"}
    /\ scanLast.stale

\* C9: in bounded mode at most one Reading is sent per cycle and the send ends the
\* scan at once; in continuous mode a sent Reading leaves the scan running, which
\* ends at the deadline (or when a send fails, see C5).
C9_BoundedOnceContinuousStays ==
    [][/\ ~current_config'.continuous_mode => cycleReadings' <= 1
       /\ cycleReadings' = cycleReadings + 1
            => IF current_config.continuous_mode
               THEN scanPc' = "Scanning" /\ scanActive' /\ timer' = timer
               ELSE scanPc' = "Sleeping" /\ ~scanActive'
       /\ (scanPc = "Scanning" /\ scanPc' # "Scanning" /\ current_config.continuous_mode)
            => (Expired(timer, now) \/ ~ProcAlive)]_vars

\* a bounded cycle that sent its one Reading and went to the pause
C9_Witness ==
    /\ scanLast.kind = "emitted"
    /\ ~current_config.continuous_mode
    /\ cycleReadings = 1
    /\ scanPc = "Sleeping"

\* C10: after n consecutive failures of Manager::new the scanner has sent exactly n
\* adapter-error statuses and nothing else, and it is asleep before the next try or
\* at the next try.
C10_OpenFailuresReportAndRetry ==
    streak.fails > 0 =>
        /\ Len(streak.sent) = streak.fails
        /\ \A i \in 1..Len(streak.sent) : streak.sent[i] = StatusUpdate(StatusAdapterError)
        /\ scanPc \in {"Sleeping", "AcquireAdapter"}
        /\ scanPc = "Sleeping" => timer # None
        /\ ~scanActive

C10_Witness == streak.fails = 3 /\ scanPc = "AcquireAdapter"

\* q is the beginning of r
IsPrefix(q, r) == Len(q) <= Len(r) /\ SubSeq(r, 1, Len(q)) = q

\* the stage takes the message at the head of its inbound queue in this step
Takes == procQ # <<>> /\ procQ' = Tail(procQ)

\* C11: the inbound queue only grows at its tail and shrinks at its head; the stage
\* takes its head and, while the consumer is alive, appends a status unchanged, and a
\* reading either not at all (suppressed) or unchanged right after its write status;
\* the outbound queue otherwise only changes by the consumer emptying it. So the
\* consumer sees forwarded statuses and accepted readings in the order in which the
\* scanner sent them, none twice, and every status.
C11_StatusesForwardedInOrder ==
    [][/\ Takes \/ IsPrefix(procQ, procQ')
       /\ Takes =>
            LET m == Head(procQ) IN
            CASE m.type = "StatusUpdate" ->
                   guiQ' = IF guiAlive THEN guiQ \o <<m>> ELSE guiQ
              [] m.type = "NewData" ->
                   \/ guiQ' = guiQ
                   \/ guiAlive /\ \E b \in BOOLEAN : guiQ' = guiQ \o <<CsvWriteStatus(b), m>>
              [] OTHER -> guiQ' = guiQ
       /\ ~Takes => (guiQ' = guiQ \/ guiQ' = <<>>)]_vars

\* the consumer's queue holds the scanning status and then the waiting status of a
\* cycle, as the scanner sent them
C11_Witness ==
    /\ procLast.kind = "status"
    /\ Len(guiQ) = 2
    /\ guiQ[1].type = "StatusUpdate" /\ guiQ[1].text # StatusWaiting
    /\ guiQ[2] = StatusUpdate(StatusWaiting)

\* the first manufacturer-data entry of the one device in range
FirstEntry == stream.event.mfr[1]

\* C12: whatever the company id c and the payload <<b0, b1, ...>> of the first entry,
\* the temperature sent is the 16-bit two's complement number whose low byte is the
\* high byte of c and whose high byte is b0, the humidity sent is b1, whatever its
\* value, and an event is passed over only if its payload has fewer than 2 bytes.
C12_DecodedFromCompanyIdAndPayload ==
    LET c == FirstEntry.company_id
        data == FirstEntry.data
    IN /\ \A i \in 1..Len(procQ) :
            /\ procQ[i].type = "NewData"
            /\ Len(data) >= 2
            /\ procQ[i].temp \in -32768..32767
            /\ procQ[i].temp % 256 = c \div 256
            /\ (procQ[i].temp % 65536) \div 256 = data[1]
            /\ procQ[i].hum = data[2]
       /\ scanLast.kind = "ignored" => Len(data) < 2
       /\ scanLast.kind = "emitted" => procQ # <<>>

\* a reading below zero with a humidity above 100 was decoded and sent
C12_Witness ==
    /\ scanLast.kind = "emitted"
    /\ procQ[Len(procQ)].temp < 0
    /\ procQ[Len(procQ)].hum > 100

\* the one device in range
Device == stream.event

\* the scanner sends nothing in this step, or the deadline has passed and it sends
\* the waiting status and goes to the pause
NoMessageButTimeout ==
    /\ cycleReadings' = cycleReadings
    /\ \/ procQ' = procQ /\ scanPc' = "Scanning"
       \/ procQ # <<>> /\ procQ' = Tail(procQ) /\ scanPc' = "Scanning"
       \/ /\ Expired(timer, now)
          /\ procQ' = Append(procQ, StatusUpdate(StatusWaiting))
          /\ scanPc' = "Sleeping"

\* the device is the target, and its map is empty or its first entry is too short
FaultyFirstEntry ==
    /\ Device.kind \in {"DeviceDiscovered", "DeviceUpdated"}
    /\ Device.resolved
    /\ EqIgnoreAsciiCase(Device.address, current_config.target_mac)
    /\ (Device.mfr = <<>> \/ Len(Device.mfr[1].data) < 2)

\* C13: while the target device advertises an empty manufacturer-data map or a first
\* entry of fewer than 2 bytes, a scan sends no Reading and no status for its events
\* and goes on until the deadline, whatever the later entries of the map hold; and a
\* Reading sent for a map of several entries is decoded from the first entry.
C13_FaultyFirstEntryIgnored ==
    [][/\ (scanPc = "Scanning" /\ FaultyFirstEntry) => NoMessageButTimeout
       /\ (cycleReadings' = cycleReadings + 1 /\ Len(Device.mfr) > 1)
            => LET m == procQ'[Len(procQ) + 1] IN
               /\ m.temp % 256 = Device.mfr[1].company_id \div 256
               /\ (m.temp % 65536) \div 256 = Device.mfr[1].data[1]
               /\ m.hum = Device.mfr[1].data[2]]_vars

\* an event of the target whose first entry is too short, though the second is not,
\* was passed over and the scan is still running
C13_Witness ==
    /\ scanLast.kind = "ignored"
    /\ scanPc = "Scanning"
    /\ FaultyFirstEntry
    /\ Len(Device.mfr) = 2
    /\ Len(Device.mfr[2].data) >= 2

\* the letters of an address in upper case
Upper(a) == [i \in 1..Len(a) |-> IF a[i] \in 97..122 THEN a[i] - 32 ELSE a[i]]

\* C14: a Reading is sent only for a DeviceDiscovered or DeviceUpdated event whose
\* address is, letter case aside, the target address of the snapshot the scanner took
\* at the top of the cycle; while the device in range has another address a scan
\* sends nothing for its events and goes on until the deadline.
C14_OnlyTargetAddressEmits ==
    [][/\ cycleReadings' = cycleReadings + 1
            => /\ Device.kind \in {"DeviceDiscovered", "DeviceUpdated"}
               /\ Upper(Device.address) = Upper(current_config.target_mac)
       /\ (scanPc = "Scanning" /\ Upper(Device.address) # Upper(current_config.target_mac))
            => NoMessageButTimeout]_vars

\* a Reading was sent for an address that differs from the snapshot's only in letter
\* case, after the shared target address was changed to another device
C14_Witness ==
    /\ scanLast.kind = "emitted"
    /\ scanLast.stale
    /\ Device.address # current_config.target_mac
    /\ Upper(shared_config.target_mac) # Upper(Device.address)

\* the data records of the file: every record but the header
DataRows(file) == SelectSeq(file.rows, LAMBDA r : r # CsvHeader)

\* C15: the records of the daily file are never removed or changed; a step changes
\* the file only when the stage accepts a reading and the write succeeds, and then
\* it adds one data record, that of the reading, at the end (after the header if the
\* step created the file); a suppressed reading, a failed write and every step of
\* the scanner and of the consumer leave its records as they were.
C15_LogAppendOnlyInStep ==
    [][/\ IsPrefix(csvFile.rows, csvFile'.rows)
       /\ csvFile.exists => csvFile'.exists
       /\ IF HandlesReading /\ Accepts /\ procLast'.write_ok
          THEN /\ Len(DataRows(csvFile')) = Len(DataRows(csvFile)) + 1
               /\ csvFile'.rows[Len(csvFile'.rows)]
                    = CsvRow(WallClock(now), Head(procQ).temp, Head(procQ).hum)
               /\ Len(csvFile'.rows) <= Len(csvFile.rows) + 2
          ELSE csvFile'.rows = csvFile.rows]_vars

\* the second accepted reading was appended to the file the first one created
C15_Witness ==
    /\ procLast.kind = "accepted"
    /\ procLast.write_ok
    /\ csvFile.rows # <<>>
    /\ csvFile.rows[1] = CsvHeader
    /\ Len(DataRows(csvFile)) = 2

\* the header the specification names, and the header of line 354
HeaderEnglish ==
    << <<"D", "a", "t", "e">>, <<"T", "i", "m", "e">>,
       <<"T", "e", "m", "p", "e", "r", "a", "t", "u", "r", "e">>,
       <<"H", "u", "m", "i", "d", "i", "t", "y">> >>

HeaderCzech ==
    << <<"D", "a", "t", "u", "m">>, <<"C", "a", "s">>,
       <<"T", "e", "p", "l", "o", "t", "a">>, <<"V", "l", "h", "k", "o", "s", "t">> >>

\* YYYY.MM.DD
IsDateText(s) ==
    /\ Len(s) = 10
    /\ \A i \in 1..10 : IF i \in {5, 8} THEN s[i] = "." ELSE IsDigit(s[i])

\* HH:MM:SS
IsTimeText(s) ==
    /\ Len(s) = 8
    /\ \A i \in 1..8 : IF i \in {3, 6} THEN s[i] = ":" ELSE IsDigit(s[i])

\* an optional minus sign, digits, a comma, one digit
IsTempText(s) ==
    LET body == IF s # <<>> /\ s[1] = "-" THEN Tail(s) ELSE s
    IN /\ Len(body) >= 3
       /\ body[Len(body) - 1] = ","
       /\ \A i \in 1..Len(body) : i # Len(body) - 1 => IsDigit(body[i])

\* digits only
IsHumText(s) == s # <<>> /\ \A i \in 1..Len(s) : IsDigit(s[i])

\* date;time;temperature with a comma;integer humidity
IsDataRow(r) ==
    /\ Len(r) = 4
    /\ IsDateText(r[1])
    /\ IsTimeText(r[2])
    /\ IsTempText(r[3])
    /\ IsHumText(r[4])

\* a row is added at the end of the file in this step
AddsDataRow ==
    /\ Len(csvFile'.rows) = Len(csvFile.rows) + 1
    /\ IsPrefix(csvFile.rows, csvFile'.rows)
    /\ IsDataRow(csvFile'.rows[Len(csvFile'.rows)])

\* C16 as the specification states it: the first row of the day's file is the
\* header Date;Time;Temperature;Humidity and every later row is a data row.
C16_EnglishHeaderFirst ==
    csvFile.exists =>
        /\ csvFile.rows # <<>>
        /\ csvFile.rows[1] = HeaderEnglish
        /\ \A i \in 2..Len(csvFile.rows) : IsDataRow(csvFile.rows[i])

\* C16: the call of log_to_csv that creates the day's file, when it succeeds, writes
\* the header Datum;Cas;Teplota;Vlhkost and then its data row; a call that finds the
\* file existing writes no header, so the header is written at most once and a file
\* that a failing call created never gets one; every row a call adds after the header
\* has the form date;time;temperature with a comma;integer humidity.
C16_CzechHeaderByCreatingCall ==
    [][/\ ~csvFile.exists /\ csvFile'.rows # <<>> =>
            /\ Len(csvFile'.rows) = 2
            /\ csvFile'.rows[1] = HeaderCzech
            /\ IsDataRow(csvFile'.rows[2])
       /\ csvFile.exists => csvFile'.rows = csvFile.rows \/ AddsDataRow]_vars

\* two calls succeeded: the header, then two data rows
C16_Witness ==
    /\ Len(csvFile.rows) = 3
    /\ csvFile.rows[1] = HeaderCzech
    /\ Len(logged) = 2

\* C17: once load_history_from_csv has run, the history holds one point for every
\* row log_to_csv wrote, in order, with the temperature and the humidity that were
\* written.
C17_LoggedRowsReadBack ==
    loadPc # "NotLoaded" =>
        /\ loadPc = "Loaded"
        /\ Len(history) = Len(logged)
        /\ \A i \in 1..Len(logged) :
              /\ history[i].temp = logged[i].temp
              /\ history[i].hum = logged[i].hum

\* C18 as the specification states it: with a threshold of 30 s and readings handled
\* at 0 s, 10 s, 20 s, 35 s and 60 s, those of 0 s, 35 s and 60 s are accepted and
\* those of 10 s and 20 s suppressed.
C18_AcceptedAt0And35And60 ==
    [][HandlesReading => (Accepts <=> AsSecs(now) \in {0, 35, 60})]_vars

\* C18: with a threshold of 30 s and readings handled at 0 s, 10 s, 20 s, 35 s and
\* 60 s, those of 0 s and 35 s are accepted and those of 10 s, 20 s and 60 s
\* suppressed: 60 s is 25 s after the reading accepted at 35 s.
C18_AcceptedAt0And35 ==
    [][HandlesReading =>
          /\ AsSecs(now) \in {0, 35} => Accepts /\ procLast'.kind = "accepted"
          /\ AsSecs(now) \in {10, 20, 60} => ~Accepts /\ procLast'.kind = "suppressed"
          /\ AsSecs(now) \in {0, 10, 20, 35, 60}]_vars

\* the reading of 60 s was suppressed after two were accepted and written
C18_Witness ==
    /\ AsSecs(now) = 60
    /\ procQ = <<>>
    /\ procLast.kind = "suppressed"
    /\ writeAttempts = 2
    /\ Len(DataRows(csvFile)) = 2

\* C19: a scan that start_scan started is active only while the scanner is in
\* Scanning: however Scanning ends (the deadline, the early return of bounded mode,
\* a failed send, a failure to obtain the event stream), stop_scan has been called
\* before the scanner is anywhere else.
C19_StartedScanIsStopped == scanActive => scanPc = "Scanning"

\* a step of the scanner
ScannerSteps == scanVars' # scanVars

\* the manager opens in this step of AcquireAdapter
ManagerOpens ==
    /\ scanPc = "AcquireAdapter"
    /\ ScannerSteps
    /\ scanLast'.kind # "open_failed"

\* what a step of the scanner sends while the stage is alive
SentNow == SubSeq(procQ', Len(procQ) + 1, Len(procQ'))

\* how many waiting statuses a sequence of messages holds
WaitingIn(ms) ==
    Cardinality({i \in 1..Len(ms) : ms[i] = StatusUpdate(StatusWaiting)})

\* C20: a cycle in which the manager opens goes on to Scanning or ends in Pausing,
\* and Scanning ends in Pausing; the step that ends the cycle sends one waiting
\* status, after everything else the cycle sent, and sleeps 1 second in continuous
\* mode or the configured pause otherwise; no other step of the cycle sends a
\* waiting status; the sleep is left only for AcquireAdapter.
C20_OpenedCycleEndsInPausing ==
    [][ScannerSteps =>
          /\ ManagerOpens => scanPc' \in {"Scanning", "Sleeping"}
          /\ scanPc = "Scanning" => scanPc' \in {"Scanning", "Sleeping"}
          /\ scanPc = "Sleeping" => scanPc' = "AcquireAdapter"
          /\ (ManagerOpens \/ scanPc = "Scanning") /\ ProcAlive =>
                IF scanPc' = "Sleeping"
                THEN /\ WaitingIn(SentNow) = 1
                     /\ procQ'[Len(procQ')] = StatusUpdate(StatusWaiting)
                     /\ timer' = After(now, IF current_config'.continuous_mode
                                            THEN 1
                                            ELSE current_config'.scan_pause_secs)
                ELSE WaitingIn(SentNow) = 0]_vars

\* the scanner sends a Reading in this step
EmitsReading == scanPc = "Scanning" /\ cycleReadings' = cycleReadings + 1

\* the deadline of the scan that starts in this step: 60 seconds in continuous
\* mode, the configured scan timeout otherwise
DeadlineSet ==
    scanPc = "AcquireAdapter" /\ scanPc' = "Scanning" =>
        timer' = Some(now + TicksPerSec * (IF current_config'.continuous_mode
                                           THEN 60
                                           ELSE current_config'.scan_timeout_secs))

FindsNoAdapter == ScannerSteps /\ scanLast'.kind = "no_adapter"

\* C22: when the manager opens but enumerates no adapter, the cycle starts no scan
\* and sends neither a scanning status nor a Reading: it sends the waiting status
\* and nothing else, sleeps the pause of its mode, and the sleep is left only for
\* AcquireAdapter.
C22_NoAdapterGoesToPausing ==
    [][/\ FindsNoAdapter =>
            /\ scanPc = "AcquireAdapter"
            /\ scanPc' = "Sleeping"
            /\ scanActive' = scanActive
            /\ ~scanActive'
            /\ cycleReadings' = 0
            /\ ProcAlive => SentNow = <<StatusUpdate(StatusWaiting)>>
            /\ ~ProcAlive => procQ' = procQ
            /\ timer' = Some(now + TicksPerSec * (IF shared_config.continuous_mode
                                                  THEN 1
                                                  ELSE shared_config.scan_pause_secs))
       /\ scanPc = "Sleeping" /\ scanLast.kind = "no_adapter" /\ ScannerSteps =>
            scanPc' = "AcquireAdapter" /\ procQ' = procQ /\ ~scanActive']_vars

\* the scanner sleeps after a cycle that found no adapter, and the stage has the
\* waiting status of that cycle in its queue
C22_Witness ==
    /\ scanPc = "Sleeping"
    /\ scanLast.kind = "no_adapter"
    /\ procQ # <<>>
    /\ procQ[Len(procQ)] = StatusUpdate(StatusWaiting)

\* what a step puts on the consumer channel
Delivers == IF IsPrefix(guiQ, guiQ') THEN SubSeq(guiQ', Len(guiQ) + 1, Len(guiQ')) ELSE <<>>

\* the two messages of an accepted reading: the outcome of its write, then itself
AcceptedPair == <<CsvWriteStatus(csvFile'.rows # csvFile.rows), Head(procQ)>>

\* no CsvWriteStatus and no NewData among the messages
NoReadingMessages(ms) ==
    \A i \in 1..Len(ms) : ms[i].type \notin {"CsvWriteStatus", "NewData"}

\* in the queue every NewData comes right after a CsvWriteStatus
PairedIn(q) ==
    \A i \in 1..Len(q) :
        q[i].type = "NewData" => i > 1 /\ q[i - 1].type = "CsvWriteStatus"

\* C23 as the specification states it: every accepted reading, and nothing else,
\* puts on the consumer channel the CsvWriteStatus of its write and then its
\* NewData, so there are as many CsvWriteStatus messages as accepted readings; a
\* CsvWriteStatus that arrives on the inbound queue is not forwarded.
C23_EveryAcceptDeliversPair ==
    [][/\ PairedIn(guiQ')
       /\ IF HandlesReading /\ Accepts
          THEN Delivers = AcceptedPair
          ELSE NoReadingMessages(Delivers)]_vars

\* C23: while the consumer's receiver exists, every accepted reading, and nothing
\* else, puts on the consumer channel the CsvWriteStatus of its write and then its
\* NewData; a reading accepted after the receiver was dropped is written and
\* delivers neither; a CsvWriteStatus that arrives on the inbound queue is not
\* forwarded.
C23_AcceptDeliversPairToLiveConsumer ==
    [][/\ PairedIn(guiQ')
       /\ IF HandlesReading /\ Accepts
          THEN Delivers = IF guiAlive THEN AcceptedPair ELSE <<>>
          ELSE NoReadingMessages(Delivers)
       /\ ProcReceives("CsvWriteStatus") /\ procQ' = Tail(procQ) => guiQ' = guiQ]_vars

\* the consumer channel holds the outcome of a failed write and the reading, and
\* the stage has just dropped a CsvWriteStatus from its inbound queue
C23_Witness ==
    /\ guiAlive
    /\ Len(guiQ) = 2
    /\ guiQ[1] = CsvWriteStatus(FALSE)
    /\ guiQ[2].type = "NewData"
    /\ procLast.kind = "ignored"

\* C24: last_save_time is None exactly as long as no reading has been accepted; a
\* step changes it only by accepting a reading, and then to the Instant of that
\* step; once set it is never None again and never earlier than it was, whatever
\* messages the stage receives.
C24_LastSaveTimeOnlyAdvances ==
    [][/\ (last_save_time = None) <=> (writeAttempts = 0)
       /\ (last_save_time' = None) <=> (writeAttempts' = 0)
       /\ last_save_time' # last_save_time =>
            HandlesReading /\ Accepts /\ last_save_time' = Some(now)
       /\ last_save_time # None =>
            last_save_time' # None /\ last_save_time'[1] >= last_save_time[1]]_vars

\* two readings were accepted, the second after the clock moved, the write of
\* both failing, and a CsvWriteStatus was received since
C24_Witness ==
    /\ writeAttempts = 2
    /\ last_save_time # None
    /\ last_save_time[1] > 0
    /\ ~csvFile.exists
    /\ procLast.kind = "ignored"

\* C25: the history of the presentation layer holds every reading the stage accepted
\* at most once, whether it came from the day's file at start-up or from its NewData
\* message: with no file before this run, the history never has more points than
\* readings were accepted.
C25_AcceptedReadingOnceInHistory == Len(history) <= writeAttempts

====
